---- MODULE Spec2Model ----
(***************************************************************************)
(* Token gateway of NodeJS.APIServer: the SecurityController middleware   *)
(* chain (authenticate, secure, require, access), the token handlers      *)
(* (generate, invalidate, list, logs), the bootstrap admin token, the     *)
(* Database utility over the tokens and logs collections, the Console     *)
(* audit writer and the ErrorHandler middleware.                          *)
(*                                                                         *)
(* Time is counted in abstract ticks.  Store calls that the code does not  *)
(* wait for (Database.upsert from generate, admin, Console.save and the   *)
(* ErrorHandler) are kept in `pending` until the store executes them;     *)
(* store calls the code waits for (Database.list, Database.remove) are    *)
(* a position of the request (`pc`).                                      *)
(***************************************************************************)
EXTENDS Integers, Sequences, FiniteSets, TLC

\* ------------------------------------------------------------------ bounds
MaxReq == 2          \* requests handled in one run
MaxClock == 1        \* last tick of the clock

\* ------------------------------------------------- program constants
AdminValidity == 2   \* expiresIn of the bootstrap token ('4 minutes'), in ticks
DefaultValidity == 3 \* expiresIn default of generate ('24 hours'), in ticks

Users == {"admin", "alice"}

GA == "General.Access"
GL == "General.Logs"
TG == "Tokens.Generate"
TL == "Tokens.List"

\* scope of the bootstrap token
adminScope == <<GA, GL, TG>>

\* Errors.js: name -> (status, code)
Errors ==
  [ DefaultError         |-> [status |-> 400, code |-> 100],
    SyntaxError          |-> [status |-> 400, code |-> 101],
    TokenPermissionError |-> [status |-> 401, code |-> 102],
    TokenExpiredError    |-> [status |-> 401, code |-> 103],
    JsonWebTokenError    |-> [status |-> 401, code |-> 104],
    InvalidPayloadError  |-> [status |-> 400, code |-> 105],
    NoDataAvailableError |-> [status |-> 404, code |-> 106],
    NothingToRemoveError |-> [status |-> 409, code |-> 107] ]

\* ------------------------------------------------------ sequence helpers
Range(s) == {s[i] : i \in 1..Len(s)}

\* the least member of a non-empty set of numbers
Min(S) == CHOOSE i \in S : \A j \in S : i <= j

\* ------------------------------------------------------------ JWT codec
\* claims handed to jwt.sign: id and scope with their JavaScript kind,
\* validity (0 when the body carries none)
Claims(id, scopeKind, scope, validity) ==
  [id |-> id, idKind |-> "string", scopeKind |-> scopeKind, scope |-> scope,
   validity |-> validity]

\* jwt.sign(payload, secret, {expiresIn}): HS256 is deterministic, so the string
\* is determined by the payload, the issue time (iat) and the expiry (exp)
sign(payload, expiresIn, now) ==
  [payload |-> payload, iat |-> now, exp |-> now + expiresIn, sig |-> "valid"]

\* a three-segment string that was not signed with config.security.secret
forged ==
  [payload |-> Claims("admin", "array", adminScope, AdminValidity),
   iat |-> 0, exp |-> MaxClock + 2, sig |-> "invalid"]

\* a three-segment string of base64url words that does not decode to a token
garbled ==
  [forged EXCEPT !.sig = "malformed"]

\* mutant: the token is decoded without checking its signature
signature_decode(tokenString, now) ==
  IF now >= tokenString.exp
    THEN [ok |-> FALSE, name |-> "TokenExpiredError", token |-> <<>>]
  ELSE [ok |-> TRUE, name |-> "",
        token |-> <<[id |-> tokenString.payload.id,
                     idKind |-> tokenString.payload.idKind,
                     scopeKind |-> tokenString.payload.scopeKind,
                     scope |-> tokenString.payload.scope,
                     validity |-> tokenString.payload.validity,
                     iat |-> tokenString.iat,
                     exp |-> tokenString.exp]>>]

\* mutant: the expiry is not looked at
signature_noExpiry(tokenString, now) ==
  IF tokenString.sig # "valid"
    THEN [ok |-> FALSE, name |-> "JsonWebTokenError", token |-> <<>>]
  ELSE [ok |-> TRUE, name |-> "",
        token |-> <<[id |-> tokenString.payload.id,
                     idKind |-> tokenString.payload.idKind,
                     scopeKind |-> tokenString.payload.scopeKind,
                     scope |-> tokenString.payload.scope,
                     validity |-> tokenString.payload.validity,
                     iat |-> tokenString.iat,
                     exp |-> tokenString.exp]>>]

\* jwt.verify(tokenString, secret): the signature first, then the expiry
signature(tokenString, now) ==
  IF tokenString.sig # "valid"
    THEN [ok |-> FALSE, name |-> "JsonWebTokenError", token |-> <<>>]
  ELSE IF now >= tokenString.exp
    THEN [ok |-> FALSE, name |-> "TokenExpiredError", token |-> <<>>]
  ELSE [ok |-> TRUE, name |-> "",
        token |-> <<[id |-> tokenString.payload.id,
                     idKind |-> tokenString.payload.idKind,
                     scopeKind |-> tokenString.payload.scopeKind,
                     scope |-> tokenString.payload.scope,
                     validity |-> tokenString.payload.validity,
                     iat |-> tokenString.iat,
                     exp |-> tokenString.exp]>>]

\* ------------------------------------------------------------ validation
\* Authorization header: scheme word, number of dot-separated segments after
\* it, and whether the segments are non-empty base64url words
NoHeader == [scheme |-> "", nseg |-> 0, wordsOk |-> FALSE, tok |-> forged]
Bearer(tok) == [scheme |-> "Bearer", nseg |-> 3, wordsOk |-> TRUE, tok |-> tok]
BadHeaders ==
  { NoHeader,
    [scheme |-> "Bearer", nseg |-> 2, wordsOk |-> TRUE, tok |-> forged],
    [scheme |-> "Basic", nseg |-> 3, wordsOk |-> TRUE, tok |-> forged] }

\* mutant: only the scheme word is tested
tokenFormat_scheme(header) ==
  header.scheme = "Bearer"

\* internals.validate.tokenFormat: /^(Bearer )(w+)\.(w+)\.(w+)$/
tokenFormat(header) ==
  header.scheme = "Bearer" /\ header.nseg = 3 /\ header.wordsOk

\* internals.validate.token
validate_token(payload) ==
  payload.idKind = "string" /\ payload.scopeKind = "array"

\* internals.validate.payload: bodyParser.json() always yields an object
validate_payload(body) ==
  body.isObject \/ body.isEmpty

\* _.intersection(a, b): the distinct elements of a, in order, that are in b
RECURSIVE intersection(_, _)
intersection(a, b) ==
  IF a = <<>> THEN <<>>
  ELSE LET rest == intersection(SubSeq(a, 1, Len(a) - 1), b)
           x == a[Len(a)]
       IN IF x \in Range(b) /\ x \notin Range(SubSeq(a, 1, Len(a) - 1))
            THEN Append(rest, x) ELSE rest

\* mutant: one of the required permissions is enough
processPermissions_any(permissions, scope) ==
  Len(intersection(permissions, scope)) >= 1

\* mutant: only the first required permission is looked at
processPermissions_first(permissions, scope) ==
  permissions[1] \in Range(scope)

\* internals.processPermissions: TRUE when next() is called without an error
processPermissions(permissions, scope) ==
  Len(intersection(permissions, scope)) = Len(permissions)

\* mutant: the guard on result is written the wrong way round
confirmToken_noResult(result, tokenString) ==
  result = <<>> \/ result[1].token = tokenString

\* mutant: any live document of the user and scope is accepted
confirmToken_anyRecord(result, tokenString) ==
  result # <<>>

\* internals.confirmToken: result is _.first of the listing (<<>> for undefined)
confirmToken(result, tokenString) ==
  result # <<>> /\ result[1].token = tokenString

\* ------------------------------------------------------------- Database
\* a document of the tokens collection, as written by generate and admin
TokenRecord(time, token, user, validity, scope, authority) ==
  [time |-> time, token |-> token, user |-> user, validity |-> validity,
   scope |-> scope, status |-> "enabled", authority |-> authority]

\* collection.find({scope, user, status}).toArray(): an array filter matches
\* the documents whose array is equal to it
find(collection, scope, user, status) ==
  LET Match(d) == d.scope = scope /\ d.user = user /\ d.status = status
  IN SelectSeq(collection, Match)

\* _.first of an array: <<>> stands for undefined
first(array) ==
  IF array = <<>> THEN <<>> ELSE <<array[1]>>

\* mutant: the filter is left out, so the document is inserted
findAndModify_insert(collection, user, data) ==
  Append(collection, data)

\* collection.findAndModify({user}, [], {$set: data}, {upsert, new}): the first
\* document of the user gets every field of data, or data is inserted
findAndModify(collection, user, data) ==
  LET idx == {i \in 1..Len(collection) : collection[i].user = user}
  IN IF idx = {} THEN Append(collection, data)
     ELSE [collection EXCEPT ![Min(idx)] = data]

\* mutant: the filter is left out, so every document is deleted
deleteMany_all(collection, user) ==
  <<>>

\* collection.deleteMany({user})
deleteMany(collection, user) ==
  LET Keep(d) == d.user # user
  IN SelectSeq(collection, Keep)

\* mutant: a removal of nothing counts as a success
process_remove_zero(n) ==
  IF n >= 0 THEN [error |-> "", removed |-> n]
  ELSE [error |-> "NothingToRemoveError", removed |-> 0]

\* internals.process.remove: n is mongoResponse.result.n
process_remove(n) ==
  IF n > 0 THEN [error |-> "", removed |-> n]
  ELSE [error |-> "NothingToRemoveError", removed |-> 0]

\* ----------------------------------------------------------------- routes
\* Security.routes, in registration order; routes[1] is the '*' gate
routes ==
  << [url |-> "*", method |-> "all", permissions |-> <<GA>>, action |-> "access"],
     [url |-> "/tokens/:user", method |-> "post", permissions |-> <<TG>>,
      action |-> "generate"],
     [url |-> "/tokens/:user", method |-> "delete", permissions |-> <<TG>>,
      action |-> "invalidate"],
     [url |-> "/tokens", method |-> "get", permissions |-> <<TG, TL>>,
      action |-> "list"],
     [url |-> "/logs", method |-> "get", permissions |-> <<GL>>,
      action |-> "logs"] >>

\* the route after the gate that Express matches for a request: <<>> for none
matchRoute(method, url) ==
  LET idx == {i \in 2..Len(routes) :
                routes[i].url = url /\ routes[i].method = method}
  IN IF idx = {} THEN <<>> ELSE <<routes[Min(idx)]>>

\* ------------------------------------------------------------------ state
VARIABLES
  boot,      \* position of the startup chain of the application
  clock,     \* current time, in ticks
  tokens,    \* the tokens collection, in insertion order
  logs,      \* the logs collection
  pending,   \* store writes issued and not waited for, not yet executed
  req,       \* the requests: position in the middleware chain and fields
  known,     \* token strings that clients hold
  running,   \* the request whose middleware holds the JavaScript thread, or 0
  replaced,  \* history: token strings of documents that an upsert overwrote
  lost,      \* history: store writes that failed
  started    \* history: the steps of the startup chain that have run

vars ==
  <<boot, clock, tokens, logs, pending, req, known, running, replaced, lost,
    started>>

Reqs == DOMAIN req

\* request body after bodyParser.json(): scope with its kind, validity;
\* malformed: the JSON text did not parse and request.body is left {}
Body(scopeKind, scope, validity) ==
  [isObject |-> TRUE, isEmpty |-> (scopeKind = "missing" /\ validity = 0),
   scopeKind |-> scopeKind, scope |-> scope, validity |-> validity,
   malformed |-> FALSE]

EmptyBody == Body("missing", <<>>, 0)

MalformedBody == [EmptyBody EXCEPT !.malformed = TRUE]

\* bodies a client sends to POST /tokens/:user
Bodies ==
  { Body("array", <<GA>>, 1),
    Body("array", <<GA, TG, TL>>, 0),
    Body("array", <<TG>>, 0),
    Body("array", adminScope, AdminValidity),
    Body("other", <<>>, 0) }

\* what a client may ask for: method, path, :user parameter, body
Calls ==
  {[method |-> "post", url |-> "/tokens/:user", user |-> u, body |-> b] :
     u \in Users, b \in Bodies}
  \cup {[method |-> "delete", url |-> "/tokens/:user", user |-> u,
         body |-> EmptyBody] : u \in Users}
  \cup {[method |-> "get", url |-> p, user |-> "", body |-> EmptyBody] :
         p \in {"/tokens", "/logs", "/status"}}

\* the calls tried with a header that is missing, malformed or forged
ProbeCalls ==
  {c \in Calls : c.method = "get" /\ c.url = "/logs"}

NoResponse == <<>>

IdleReq ==
  [pc |-> "idle", header |-> NoHeader, method |-> "", url |-> "", user |-> "",
   body |-> EmptyBody, tokenString |-> forged, decoded |-> <<>>,
   token |-> <<>>, result |-> <<>>, error |-> "", status |-> 0,
   removed |-> 0, removedDocs |-> {}, records |-> <<>>,
   response |-> NoResponse, hist |-> <<>>, stale |-> FALSE, stored |-> FALSE,
   analytics |-> FALSE, who |-> "admin", cred |-> <<>>, quiet |-> FALSE,
   settled |-> FALSE]

Init ==
  /\ boot = "connecting"
  /\ clock = 0
  /\ tokens = <<>>
  /\ logs = {}
  /\ pending = {}
  /\ req = [r \in 1..MaxReq |-> IdleReq]
  /\ known = {}
  /\ running = 0
  /\ replaced = {}
  /\ lost = {}
  /\ started = <<>>

\* --------------------------------------------------------------- Console
\* Console.save(entry): the log document, issued to Database.upsert('logs')
\* without waiting; rid tags the request it was written for (0: startup)
save(type, user, method, endpoint, rid) ==
  [op |-> "log", rid |-> rid,
   data |-> [time |-> clock, type |-> type, user |-> user, method |-> method,
             endpoint |-> endpoint, error |-> "", rid |-> rid]]

\* ---------------------------------------------------------------- startup
\* Database.connect / internals.onConnect: resolve() lets the chain go on,
\* reject(error) leaves every later .then of the chain unrun
connect ==
  /\ boot = "connecting"
  /\ \/ boot' = "application" /\ started' = Append(started, "connect")
     \/ boot' = "failed" /\ started' = started
  /\ UNCHANGED <<clock, tokens, logs, pending, req, known, running, replaced, lost>>

\* mutant: the chain goes on after a rejected connection
setup_afterFailure ==
  /\ boot \in {"application", "routes", "failed"}
  /\ boot' = IF boot = "routes" THEN "admin"
             ELSE IF boot = "application" THEN "routes" ELSE "failed"
  /\ started' = Append(started, IF boot = "routes" THEN "routes" ELSE "application")
  /\ UNCHANGED <<clock, tokens, logs, pending, req, known, running, replaced, lost>>

\* internals.setup.application (listen), then internals.setup.routes
setup ==
  /\ boot \in {"application", "routes"}
  /\ boot' = IF boot = "application" THEN "routes" ELSE "admin"
  /\ started' = Append(started, boot)
  /\ UNCHANGED <<clock, tokens, logs, pending, req, known, running, replaced, lost>>

\* Security.admin: sign the bootstrap token, upsert it keyed by user, log it
admin ==
  /\ boot = "admin"
  /\ LET settings == Claims("admin", "array", adminScope, AdminValidity)
         token == sign(settings, AdminValidity, clock)
     IN pending' = pending \cup
          { [op |-> "token", rid |-> 0,
             data |-> TokenRecord(clock, token, "admin", AdminValidity,
                                  adminScope, "admin")],
            save("operation", "admin", "POST", "/token/admin", 0) }
  /\ boot' = "errorHandlers"
  /\ started' = Append(started, "admin")
  /\ UNCHANGED <<clock, tokens, logs, req, known, running, replaced, lost>>

\* internals.setup.errorHandlers
errorHandlers ==
  /\ boot = "errorHandlers"
  /\ boot' = "ready"
  /\ started' = Append(started, "errorHandlers")
  /\ UNCHANGED <<clock, tokens, logs, pending, req, known, running, replaced, lost>>

\* time passes
Tick ==
  /\ running = 0
  /\ clock < MaxClock
  /\ clock' = clock + 1
  /\ UNCHANGED <<boot, tokens, logs, pending, req, known, running, replaced, lost, started>>

\* ------------------------------------------------------- store execution
\* mutant: log entries are upserted keyed by user, like the token documents
DatabaseUpsert_keyed ==
  \E w \in pending :
    /\ running = 0
    /\ pending' = pending \ {w}
    /\ IF w.op = "token"
         THEN /\ tokens' = findAndModify(tokens, w.data.user, w.data)
              /\ known' = known \cup {w.data.token}
              /\ replaced' = replaced \cup
                   {d.token : d \in {e \in Range(tokens) : e.user = w.data.user}}
              /\ UNCHANGED logs
         ELSE /\ logs' = {e \in logs : e.user # w.data.user} \cup {w.data}
              /\ UNCHANGED <<tokens, known, replaced>>
    /\ UNCHANGED <<boot, clock, req, running, lost, started>>

\* the store executes one write that nobody waits for
DatabaseUpsert ==
  \E w \in pending :
    /\ running = 0
    /\ pending' = pending \ {w}
    /\ IF w.op = "token"
         THEN /\ tokens' = findAndModify(tokens, w.data.user, w.data)
              /\ known' = known \cup {w.data.token}
              /\ replaced' = replaced \cup
                   {d.token : d \in {e \in Range(tokens) : e.user = w.data.user}}
              /\ UNCHANGED logs
         ELSE /\ logs' = logs \cup {w.data}
              /\ UNCHANGED <<tokens, known, replaced, lost, started>>
    /\ UNCHANGED <<boot, clock, req, running, lost, started>>

\* -------------------------------------------------------------- responses
\* what a handler passes to internals.respond
Data(error, token, records, removed) ==
  [error |-> error, token |-> token, records |-> records, removed |-> removed]

\* mutant: a success is always answered 200
respond_200(status, data) ==
  IF data.error # <<>>
    THEN <<[status |-> data.error[1].status, code |-> data.error[1].code,
            token |-> <<>>, records |-> <<>>, removed |-> 0]>>
    ELSE <<[status |-> 200, code |-> 0, token |-> data.token,
            records |-> data.records, removed |-> data.removed]>>

\* internals.respond: status and JSON body sent to the client
respond(status, data) ==
  IF data.error # <<>>
    THEN <<[status |-> data.error[1].status, code |-> data.error[1].code,
            token |-> <<>>, records |-> <<>>, removed |-> 0]>>
    ELSE <<[status |-> status, code |-> 0, token |-> data.token,
            records |-> data.records, removed |-> data.removed]>>

\* next(error): Express calls the ErrorHandler, within the same turn
Fail(r, name, stages) ==
  /\ req' = [req EXCEPT ![r].pc = "error", ![r].error = name,
                        ![r].hist = req[r].hist \o stages]
  /\ running' = r

\* the request a client sends: header h, call c
NewReq(h, c) ==
  [IdleReq EXCEPT !.pc = "authenticate", !.header = h, !.method = c.method,
                  !.url = c.url, !.user = c.user, !.body = c.body]

\* ------------------------------------------------------------- middleware
\* a client sends a request; requests are numbered in arrival order
Arrive ==
  /\ boot = "ready"
  /\ running = 0
  /\ \E r \in Reqs :
       /\ req[r].pc = "idle"
       /\ \A q \in Reqs : q < r => req[q].pc # "idle"
       /\ \E h \in BadHeaders \cup {Bearer(t) : t \in known \cup {forged, garbled}},
             c \in Calls :
            /\ (tokenFormat(h) /\ h.tok.sig = "valid") \/ c \in ProbeCalls
            /\ req' = [req EXCEPT ![r] = NewReq(h, c)]
  /\ UNCHANGED <<boot, clock, tokens, logs, pending, known, running, replaced, lost, started>>

\* bodyParser.json() (app.use, ahead of the routes) and then
\* actions.authenticate with internals.validate.signature and its two
\* continuations onTokenDecodeSuccess (issues the listing) / onTokenDecodeError.
\* A body that does not parse goes to the ErrorHandler as SyntaxError before
\* authenticate has set request.analytics
authenticate(r) ==
  /\ req[r].pc = "authenticate"
  /\ running = 0
  /\ IF req[r].body.malformed
       THEN Fail(r, "SyntaxError", <<>>)
     ELSE IF tokenFormat(req[r].header)
       THEN LET tokenString == req[r].header.tok
                v == signature(tokenString, clock)
            IN IF v.ok
                 THEN /\ req' = [req EXCEPT ![r].pc = "find",
                                   ![r].analytics = TRUE,
                                   ![r].tokenString = tokenString,
                                   ![r].decoded = v.token,
                                   ![r].hist = req[r].hist \o <<"header", "signature">>]
                      /\ running' = 0
                 ELSE /\ req' = [req EXCEPT ![r].pc = "error",
                                   ![r].analytics = TRUE,
                                   ![r].tokenString = tokenString,
                                   ![r].error = v.name,
                                   ![r].hist = req[r].hist \o <<"header">>]
                      /\ running' = r
       ELSE /\ req' = [req EXCEPT ![r].pc = "error", ![r].analytics = TRUE,
                         ![r].error = "InvalidPayloadError"]
            /\ running' = r
  /\ UNCHANGED <<boot, clock, tokens, logs, pending, known, replaced, lost, started>>

\* mutant: the lookup also sees the token writes that are still in flight
DatabaseFind_inFlight(r) ==
  /\ req[r].pc = "find"
  /\ running = 0
  /\ LET token == req[r].decoded[1]
         inFlight == {w \in pending : w.op = "token" /\ w.data.user = token.id
                                      /\ w.data.scope = token.scope}
     IN req' = [req EXCEPT ![r].pc = "confirmToken",
                  ![r].result =
                     IF inFlight # {}
                       THEN <<(CHOOSE w \in inFlight : TRUE).data>>
                       ELSE first(find(tokens, token.scope, token.id, "enabled")),
                  ![r].stale = (req[r].tokenString \in replaced),
                  ![r].stored = (\E d \in Range(tokens) :
                                   d.token = req[r].tokenString)]
  /\ UNCHANGED <<boot, clock, tokens, logs, pending, known, running, replaced, lost, started>>

\* mutant: the lookup stamps the documents it finds with the time of use
DatabaseFind_touch(r) ==
  /\ req[r].pc = "find"
  /\ running = 0
  /\ LET token == req[r].decoded[1]
     IN /\ req' = [req EXCEPT ![r].pc = "confirmToken",
                     ![r].result = first(find(tokens, token.scope, token.id, "enabled")),
                     ![r].stale = (req[r].tokenString \in replaced),
                     ![r].stored = (\E d \in Range(tokens) :
                                      d.token = req[r].tokenString)]
        /\ tokens' = [i \in 1..Len(tokens) |->
                        IF tokens[i].user = token.id /\ tokens[i].scope = token.scope
                          THEN [tokens[i] EXCEPT !.time = clock]
                          ELSE tokens[i]]
  /\ UNCHANGED <<boot, clock, logs, pending, known, running, replaced, lost, started>>

\* the store executes Database.list('tokens', {scope, user, status}) of
\* onTokenDecodeSuccess; _.first of the listing is kept for confirmToken.
\* History: stale / stored record whether, at this moment, the presented string
\* had been overwritten in the store / is the string of a stored document
DatabaseFind(r) ==
  /\ req[r].pc = "find"
  /\ running = 0
  /\ LET token == req[r].decoded[1]
     IN req' = [req EXCEPT ![r].pc = "confirmToken",
                  ![r].result = first(find(tokens, token.scope, token.id, "enabled")),
                  ![r].stale = (req[r].tokenString \in replaced),
                  ![r].stored = (\E d \in Range(tokens) :
                                   d.token = req[r].tokenString)]
  /\ UNCHANGED <<boot, clock, tokens, logs, pending, known, running, replaced, lost, started>>

\* mutant: the callback looks at the store again before it goes on
ConfirmToken_recheck(r) ==
  /\ req[r].pc = "confirmToken"
  /\ running = 0
  /\ IF /\ confirmToken(req[r].result, req[r].tokenString)
        /\ \E d \in Range(tokens) : d.token = req[r].tokenString
       THEN /\ req' = [req EXCEPT ![r].pc = "secure", ![r].token = req[r].decoded,
                         ![r].hist = Append(req[r].hist, "live")]
            /\ running' = r
       ELSE Fail(r, "JsonWebTokenError", <<>>)
  /\ UNCHANGED <<boot, clock, tokens, logs, pending, known, replaced, lost, started>>

\* mutant: a lookup that does not confirm the token is tried again
ConfirmToken_retry(r) ==
  /\ req[r].pc = "confirmToken"
  /\ running = 0
  /\ IF confirmToken(req[r].result, req[r].tokenString)
       THEN /\ req' = [req EXCEPT ![r].pc = "secure", ![r].token = req[r].decoded,
                         ![r].hist = Append(req[r].hist, "live")]
            /\ running' = r
       ELSE /\ req' = [req EXCEPT ![r].pc = "find"]
            /\ running' = 0
  /\ UNCHANGED <<boot, clock, tokens, logs, pending, known, replaced, lost, started>>

\* internals.confirmToken: the callback of the listing; next() runs the
\* rest of the chain within the same turn
ConfirmToken(r) ==
  /\ req[r].pc = "confirmToken"
  /\ running = 0
  /\ IF confirmToken(req[r].result, req[r].tokenString)
       THEN /\ req' = [req EXCEPT ![r].pc = "secure", ![r].token = req[r].decoded,
                         ![r].hist = Append(req[r].hist, "live")]
            /\ running' = r
       ELSE Fail(r, "JsonWebTokenError", <<>>)
  /\ UNCHANGED <<boot, clock, tokens, logs, pending, known, replaced, lost, started>>

\* actions.secure
secure(r) ==
  /\ req[r].pc = "secure"
  /\ running = r
  /\ IF validate_token(req[r].token[1]) /\ validate_payload(req[r].body)
       THEN /\ req' = [req EXCEPT ![r].pc = "require",
                         ![r].hist = Append(req[r].hist, "structure")]
            /\ running' = r
       ELSE Fail(r, "InvalidPayloadError", <<>>)
  /\ UNCHANGED <<boot, clock, tokens, logs, pending, known, replaced, lost, started>>

\* mutant: next() is also called after next(error)
require_continues(r) ==
  /\ req[r].pc \in {"require", "routeRequire"}
  /\ running = r
  /\ LET gate == req[r].pc = "require"
         permissions == IF gate THEN routes[1].permissions
                        ELSE matchRoute(req[r].method, req[r].url)[1].permissions
         ok == processPermissions(permissions, req[r].token[1].scope)
     IN /\ req' = [req EXCEPT
                     ![r].pc = IF gate THEN "access" ELSE "handler",
                     ![r].error = IF ok THEN req[r].error
                                  ELSE "TokenPermissionError",
                     ![r].hist = Append(req[r].hist,
                                   IF gate THEN GA ELSE "permissions")]
        /\ running' = r
  /\ UNCHANGED <<boot, clock, tokens, logs, pending, known, replaced, lost, started>>

\* actions.require(permissions): of the gate (pc "require"), then of the
\* matched route (pc "routeRequire")
require(r) ==
  /\ req[r].pc \in {"require", "routeRequire"}
  /\ running = r
  /\ LET gate == req[r].pc = "require"
         permissions == IF gate THEN routes[1].permissions
                        ELSE matchRoute(req[r].method, req[r].url)[1].permissions
     IN IF processPermissions(permissions, req[r].token[1].scope)
          THEN /\ req' = [req EXCEPT
                            ![r].pc = IF gate THEN "access" ELSE "handler",
                            ![r].hist = Append(req[r].hist,
                                          IF gate THEN GA ELSE "permissions")]
               /\ running' = r
          ELSE Fail(r, "TokenPermissionError", <<>>)
  /\ UNCHANGED <<boot, clock, tokens, logs, pending, known, replaced, lost, started>>

\* mutant: the test of the filtered paths is inverted
access_logsOnly(r) ==
  /\ req[r].pc = "access"
  /\ running = r
  /\ pending' = IF req[r].url = "/logs"
                  THEN pending \cup {save("request", req[r].token[1].id,
                                          req[r].method, req[r].url, r)}
                  ELSE pending
  /\ IF matchRoute(req[r].method, req[r].url) # <<>>
       THEN /\ req' = [req EXCEPT ![r].pc = "routeRequire", ![r].status = 200,
                         ![r].hist = Append(req[r].hist, "audit")]
            /\ running' = r
       ELSE /\ req' = [req EXCEPT ![r].pc = "done", ![r].status = 200,
                         ![r].hist = Append(req[r].hist, "audit"),
                         ![r].response = <<[status |-> 404, code |-> 0,
                                            token |-> <<>>, records |-> <<>>,
                                            removed |-> 0]>>]
            /\ running' = 0
  /\ UNCHANGED <<boot, clock, tokens, logs, known, replaced, lost, started>>

\* mutant: the filtered path is /tokens instead of /logs
access_filterTokens(r) ==
  /\ req[r].pc = "access"
  /\ running = r
  /\ pending' = IF req[r].url # "/tokens"
                  THEN pending \cup {save("request", req[r].token[1].id,
                                          req[r].method, req[r].url, r)}
                  ELSE pending
  /\ IF matchRoute(req[r].method, req[r].url) # <<>>
       THEN /\ req' = [req EXCEPT ![r].pc = "routeRequire", ![r].status = 200,
                         ![r].hist = Append(req[r].hist, "audit")]
            /\ running' = r
       ELSE /\ req' = [req EXCEPT ![r].pc = "done", ![r].status = 200,
                         ![r].hist = Append(req[r].hist, "audit"),
                         ![r].response = <<[status |-> 404, code |-> 0,
                                            token |-> <<>>, records |-> <<>>,
                                            removed |-> 0]>>]
            /\ running' = 0
  /\ UNCHANGED <<boot, clock, tokens, logs, known, replaced, lost, started>>

\* mutant: requests to /logs are logged like the others
access_unfiltered(r) ==
  /\ req[r].pc = "access"
  /\ running = r
  /\ pending' = pending \cup {save("request", req[r].token[1].id,
                                   req[r].method, req[r].url, r)}
  /\ IF matchRoute(req[r].method, req[r].url) # <<>>
       THEN /\ req' = [req EXCEPT ![r].pc = "routeRequire", ![r].status = 200,
                         ![r].hist = Append(req[r].hist, "audit")]
            /\ running' = r
       ELSE /\ req' = [req EXCEPT ![r].pc = "done", ![r].status = 200,
                         ![r].hist = Append(req[r].hist, "audit"),
                         ![r].response = <<[status |-> 404, code |-> 0,
                                            token |-> <<>>, records |-> <<>>,
                                            removed |-> 0]>>]
            /\ running' = 0
  /\ UNCHANGED <<boot, clock, tokens, logs, known, replaced, lost, started>>

\* actions.access: default status, request log unless the path is /logs, then
\* the next matching route; Express answers 404 when no route matches
access(r) ==
  /\ req[r].pc = "access"
  /\ running = r
  /\ pending' = IF req[r].url # "/logs"
                  THEN pending \cup {save("request", req[r].token[1].id,
                                          req[r].method, req[r].url, r)}
                  ELSE pending
  /\ IF matchRoute(req[r].method, req[r].url) # <<>>
       THEN /\ req' = [req EXCEPT ![r].pc = "routeRequire", ![r].status = 200,
                         ![r].hist = Append(req[r].hist, "audit")]
            /\ running' = r
       ELSE /\ req' = [req EXCEPT ![r].pc = "done", ![r].status = 200,
                         ![r].hist = Append(req[r].hist, "audit"),
                         ![r].response = <<[status |-> 404, code |-> 0,
                                            token |-> <<>>, records |-> <<>>,
                                            removed |-> 0]>>]
            /\ running' = 0
  /\ UNCHANGED <<boot, clock, tokens, logs, known, replaced, lost, started>>

\* the action of the route that the request matched
Action(r) == matchRoute(req[r].method, req[r].url)[1].action

\* mutant: a scope that the issuer does not hold itself is refused
generate_withinIssuer(r) ==
  /\ req[r].pc = "handler" /\ Action(r) = "generate"
  /\ running = r
  /\ LET body == Claims(req[r].user, req[r].body.scopeKind, req[r].body.scope,
                        req[r].body.validity)
         expiresIn == IF body.validity # 0 THEN body.validity ELSE DefaultValidity
         token == sign(body, expiresIn, clock)
     IN IF /\ validate_token(body)
           /\ Range(body.scope) \subseteq Range(req[r].token[1].scope)
          THEN /\ pending' = pending \cup
                    {[op |-> "token", rid |-> r,
                      data |-> TokenRecord(clock, token, body.id, expiresIn,
                                           body.scope, req[r].token[1].id)]}
               /\ known' = known \cup {token}
               /\ req' = [req EXCEPT ![r].pc = "done", ![r].status = 201,
                            ![r].hist = Append(req[r].hist, "generate"),
                            ![r].response =
                               respond(201, Data(<<>>, <<token>>, <<>>, 0))]
               /\ running' = 0
          ELSE /\ Fail(r, "InvalidPayloadError", <<"generate">>)
               /\ UNCHANGED <<pending, known>>
  /\ UNCHANGED <<boot, clock, tokens, logs, replaced, lost, started>>

\* mutant: the authority is taken from the body (request.body.id)
generate_selfAuthority(r) ==
  /\ req[r].pc = "handler" /\ Action(r) = "generate"
  /\ running = r
  /\ LET body == Claims(req[r].user, req[r].body.scopeKind, req[r].body.scope,
                        req[r].body.validity)
         expiresIn == IF body.validity # 0 THEN body.validity ELSE DefaultValidity
         token == sign(body, expiresIn, clock)
     IN IF validate_token(body)
          THEN /\ pending' = pending \cup
                    {[op |-> "token", rid |-> r,
                      data |-> TokenRecord(clock, token, body.id, expiresIn,
                                           body.scope, body.id)]}
               /\ known' = known \cup {token}
               /\ req' = [req EXCEPT ![r].pc = "done", ![r].status = 201,
                            ![r].hist = Append(req[r].hist, "generate"),
                            ![r].response =
                               respond(201, Data(<<>>, <<token>>, <<>>, 0))]
               /\ running' = 0
          ELSE /\ Fail(r, "InvalidPayloadError", <<"generate">>)
               /\ UNCHANGED <<pending, known>>
  /\ UNCHANGED <<boot, clock, tokens, logs, replaced, lost, started>>

\* mutant: the claims are signed and stored without validate.token
generate_unvalidated(r) ==
  /\ req[r].pc = "handler" /\ Action(r) = "generate"
  /\ running = r
  /\ LET body == Claims(req[r].user, req[r].body.scopeKind, req[r].body.scope,
                        req[r].body.validity)
         expiresIn == IF body.validity # 0 THEN body.validity ELSE DefaultValidity
         token == sign(body, expiresIn, clock)
     IN /\ pending' = pending \cup
             {[op |-> "token", rid |-> r,
               data |-> TokenRecord(clock, token, body.id, expiresIn,
                                    body.scope, req[r].token[1].id)]}
        /\ known' = known \cup {token}
        /\ req' = [req EXCEPT ![r].pc = "done", ![r].status = 201,
                     ![r].hist = Append(req[r].hist, "generate"),
                     ![r].response =
                        respond(201, Data(<<>>, <<token>>, <<>>, 0))]
        /\ running' = 0
  /\ UNCHANGED <<boot, clock, tokens, logs, replaced, lost, started>>

\* actions.generate
generate(r) ==
  /\ req[r].pc = "handler" /\ Action(r) = "generate"
  /\ running = r
  /\ LET body == Claims(req[r].user, req[r].body.scopeKind, req[r].body.scope,
                        req[r].body.validity)
         expiresIn == IF body.validity # 0 THEN body.validity ELSE DefaultValidity
         token == sign(body, expiresIn, clock)
     IN IF validate_token(body)
          THEN /\ pending' = pending \cup
                    {[op |-> "token", rid |-> r,
                      data |-> TokenRecord(clock, token, body.id, expiresIn,
                                           body.scope, req[r].token[1].id)]}
               /\ known' = known \cup {token}
               /\ req' = [req EXCEPT ![r].pc = "done", ![r].status = 201,
                            ![r].hist = Append(req[r].hist, "generate"),
                            ![r].response =
                               respond(201, Data(<<>>, <<token>>, <<>>, 0))]
               /\ running' = 0
          ELSE /\ Fail(r, "InvalidPayloadError", <<"generate">>)
               /\ UNCHANGED <<pending, known>>
  /\ UNCHANGED <<boot, clock, tokens, logs, replaced, lost, started>>

\* actions.invalidate: issues Database.remove('tokens', {user})
invalidate(r) ==
  /\ req[r].pc = "handler" /\ Action(r) = "invalidate"
  /\ running = r
  /\ req' = [req EXCEPT ![r].pc = "remove",
               ![r].hist = Append(req[r].hist, "invalidate")]
  /\ running' = 0
  /\ UNCHANGED <<boot, clock, tokens, logs, pending, known, replaced, lost, started>>

\* the store executes deleteMany({user}); removedDocs is history
DatabaseRemove(r) ==
  /\ req[r].pc = "remove"
  /\ running = 0
  /\ tokens' = deleteMany(tokens, req[r].user)
  /\ req' = [req EXCEPT ![r].pc = "removed",
               ![r].removed = Len(tokens) - Len(deleteMany(tokens, req[r].user)),
               ![r].removedDocs = Range(tokens) \ Range(tokens')]
  /\ UNCHANGED <<boot, clock, logs, pending, known, running, replaced, lost, started>>

\* internals.process.remove, then internals.respond
RespondRemove(r) ==
  /\ req[r].pc = "removed"
  /\ running = 0
  /\ LET out == process_remove(req[r].removed)
         data == IF out.error # ""
                   THEN Data(<<Errors[out.error]>>, <<>>, <<>>, 0)
                   ELSE Data(<<>>, <<>>, <<>>, out.removed)
     IN req' = [req EXCEPT ![r].pc = "done",
                  ![r].response = respond(req[r].status, data)]
  /\ UNCHANGED <<boot, clock, tokens, logs, pending, known, running, replaced, lost, started>>

\* actions.list: issues Database.list('tokens')
list(r) ==
  /\ req[r].pc = "handler" /\ Action(r) = "list"
  /\ running = r
  /\ req' = [req EXCEPT ![r].pc = "list",
               ![r].hist = Append(req[r].hist, "list")]
  /\ running' = 0
  /\ UNCHANGED <<boot, clock, tokens, logs, pending, known, replaced, lost, started>>

\* actions.logs: issues Database.list('logs', {}, {time: -1})
logs_(r) ==
  /\ req[r].pc = "handler" /\ Action(r) = "logs"
  /\ running = r
  /\ req' = [req EXCEPT ![r].pc = "list",
               ![r].hist = Append(req[r].hist, "logs")]
  /\ running' = 0
  /\ UNCHANGED <<boot, clock, tokens, logs, pending, known, replaced, lost, started>>

RECURSIVE sortByTimeDesc(_)
\* cursor.sort({time: -1}).toArray(): the documents, newest first
sortByTimeDesc(docs) ==
  IF docs = {} THEN <<>>
  ELSE LET newest == CHOOSE d \in docs : \A e \in docs : e.time <= d.time
       IN <<newest>> \o sortByTimeDesc(docs \ {newest})

\* the store executes the listing a handler waits for
DatabaseList(r) ==
  /\ req[r].pc = "list"
  /\ running = 0
  /\ req' = [req EXCEPT ![r].pc = "listed",
               ![r].records = IF Action(r) = "list" THEN tokens
                              ELSE sortByTimeDesc(logs)]
  /\ UNCHANGED <<boot, clock, tokens, logs, pending, known, running, replaced, lost, started>>

\* internals.respond with the listing
RespondList(r) ==
  /\ req[r].pc = "listed"
  /\ running = 0
  /\ req' = [req EXCEPT ![r].pc = "done",
               ![r].response =
                  respond(req[r].status, Data(<<>>, <<>>, req[r].records, 0))]
  /\ UNCHANGED <<boot, clock, tokens, logs, pending, known, running, replaced, lost, started>>

\* Express's final handler: the answer to an error that no error middleware
\* answered (no err.status, response status below 400)
finalhandler ==
  <<[status |-> 500, code |-> 0, token |-> <<>>, records |-> <<>>, removed |-> 0]>>

\* mutant: the requester is taken from the claims that the signature check
\* decoded, confirmed or not
ErrorHandler_decoded(r) ==
  /\ req[r].pc = "error"
  /\ running = r
  /\ LET id == IF req[r].decoded # <<>> THEN req[r].decoded[1].id ELSE "Unknown ID"
         result == IF req[r].error \in DOMAIN Errors THEN Errors[req[r].error]
                   ELSE Errors.DefaultError
     IN /\ pending' = pending \cup
             {[op |-> "log", rid |-> r,
               data |-> [time |-> clock, type |-> "error", user |-> id,
                         method |-> req[r].method, endpoint |-> req[r].url,
                         error |-> req[r].error, rid |-> r]]}
        /\ req' = [req EXCEPT ![r].pc = "done",
                     ![r].response =
                        IF req[r].analytics
                          THEN respond(req[r].status,
                                       Data(<<result>>, <<>>, <<>>, 0))
                          ELSE finalhandler]
  /\ running' = 0
  /\ UNCHANGED <<boot, clock, tokens, logs, known, replaced, lost, started>>

\* mutant: the error is answered without an error log
ErrorHandler_noLog(r) ==
  /\ req[r].pc = "error"
  /\ running = r
  /\ LET result == IF req[r].error \in DOMAIN Errors THEN Errors[req[r].error]
                   ELSE Errors.DefaultError
     IN req' = [req EXCEPT ![r].pc = "done",
                  ![r].response =
                     IF req[r].analytics
                       THEN respond(req[r].status,
                                    Data(<<result>>, <<>>, <<>>, 0))
                       ELSE finalhandler]
  /\ running' = 0
  /\ UNCHANGED <<boot, clock, tokens, logs, pending, known, replaced, lost, started>>

\* ErrorHandler middleware: the error log is issued to the store, then
\* request.analytics.exception(...) is called, then the response is sent; when
\* request.analytics is not set the call throws a TypeError and Express's
\* final handler answers
ErrorHandler(r) ==
  /\ req[r].pc = "error"
  /\ running = r
  /\ LET id == IF req[r].token # <<>> THEN req[r].token[1].id ELSE "Unknown ID"
         result == IF req[r].error \in DOMAIN Errors THEN Errors[req[r].error]
                   ELSE Errors.DefaultError
     IN /\ pending' = pending \cup
             {[op |-> "log", rid |-> r,
               data |-> [time |-> clock, type |-> "error", user |-> id,
                         method |-> req[r].method, endpoint |-> req[r].url,
                         error |-> req[r].error, rid |-> r]]}
        /\ req' = [req EXCEPT ![r].pc = "done",
                     ![r].response =
                        IF req[r].analytics
                          THEN respond(req[r].status,
                                       Data(<<result>>, <<>>, <<>>, 0))
                          ELSE finalhandler]
  /\ running' = 0
  /\ UNCHANGED <<boot, clock, tokens, logs, known, replaced, lost, started>>

\* ----------------------------------------------------------- store failures
\* the store fails a write that nobody waits for: the promise of
\* Database.upsert is rejected, or resolves to {error}, and is never looked at
DatabaseUpsertFails ==
  \E w \in pending :
    /\ running = 0
    /\ pending' = pending \ {w}
    /\ lost' = lost \cup {w}
    /\ UNCHANGED <<boot, clock, tokens, logs, req, known, running, replaced,
                   started>>

\* the store fails the call a request waits for (the listing of
\* onTokenDecodeSuccess, Database.remove of invalidate, Database.list of list
\* and logs): the promise is rejected, and as the chain has only .then
\* continuations nothing runs for the request any more
DatabaseFails(r) ==
  /\ req[r].pc \in {"find", "remove", "list"}
  /\ running = 0
  /\ req' = [req EXCEPT ![r].pc = "hung"]
  /\ UNCHANGED <<boot, clock, tokens, logs, pending, known, running, replaced,
                 lost, started>>

\* --------------------------------------------------------- specification
Next ==
  \/ connect
  \/ setup
  \/ admin
  \/ errorHandlers
  \/ Tick
  \/ DatabaseUpsert
  \/ Arrive
  \/ \E r \in Reqs : authenticate(r)
  \/ \E r \in Reqs : DatabaseFind(r)
  \/ \E r \in Reqs : ConfirmToken(r)
  \/ \E r \in Reqs : secure(r)
  \/ \E r \in Reqs : require(r)
  \/ \E r \in Reqs : access(r)
  \/ \E r \in Reqs : generate(r)
  \/ \E r \in Reqs : invalidate(r)
  \/ \E r \in Reqs : DatabaseRemove(r)
  \/ \E r \in Reqs : RespondRemove(r)
  \/ \E r \in Reqs : list(r)
  \/ \E r \in Reqs : logs_(r)
  \/ \E r \in Reqs : DatabaseList(r)
  \/ \E r \in Reqs : RespondList(r)
  \/ \E r \in Reqs : ErrorHandler(r)

Spec == Init /\ [][Next]_vars

\* ------------------------------------------------- one client, in sequence
\* a step of a script: the call, and the scope of the admin token it is made with
Step(method, url, user, body, cred) ==
  [IdleReq EXCEPT !.method = method, !.url = url, !.user = user, !.body = body,
                  !.cred = cred]

\* generate alice, list the tokens, invalidate alice twice, as the bootstrap admin
ScriptTokens ==
  << Step("post", "/tokens/:user", "alice", Body("array", <<GA>>, 1), adminScope),
     Step("get", "/tokens", "", EmptyBody, adminScope),
     Step("delete", "/tokens/:user", "alice", EmptyBody, adminScope),
     Step("delete", "/tokens/:user", "alice", EmptyBody, adminScope) >>

\* read the logs, give admin a token that may list, list the tokens with it
ScriptList ==
  << Step("get", "/logs", "", EmptyBody, adminScope),
     Step("post", "/tokens/:user", "admin", Body("array", <<GA, TG, TL>>, 0),
          adminScope),
     Step("get", "/tokens", "", EmptyBody, <<GA, TG, TL>>) >>

\* generate admin again with the bootstrap claims, invalidate admin, come back
ScriptInvalidate ==
  << Step("post", "/tokens/:user", "admin",
          Body("array", adminScope, AdminValidity), adminScope),
     Step("delete", "/tokens/:user", "admin", EmptyBody, adminScope),
     Step("get", "/logs", "", EmptyBody, adminScope) >>

\* generate alice twice, with two scopes
ScriptGenerate ==
  << Step("post", "/tokens/:user", "alice", Body("array", <<GA>>, 1), adminScope),
     Step("post", "/tokens/:user", "alice", Body("array", <<GA, TG, TL>>, 0),
          adminScope) >>

\* a step made with the token of user who
StepAs(who, method, url, user, body, cred) ==
  [Step(method, url, user, body, cred) EXCEPT !.who = who]

\* give alice a token with an empty scope, then use it
ScriptEmptyScope ==
  << Step("post", "/tokens/:user", "alice", Body("array", <<>>, 0), adminScope),
     StepAs("alice", "get", "/logs", "", EmptyBody, <<>>) >>

\* bodies that generate may not accept: scope not an array, scope missing,
\* JSON text that does not parse
ScriptBadBody ==
  << Step("post", "/tokens/:user", "alice", Body("other", <<>>, 0), adminScope),
     Step("post", "/tokens/:user", "alice", EmptyBody, adminScope),
     Step("post", "/tokens/:user", "alice", MalformedBody, adminScope) >>

\* read the logs twice
ScriptLogs ==
  << Step("get", "/logs", "", EmptyBody, adminScope),
     Step("get", "/logs", "", EmptyBody, adminScope) >>

Scripts ==
  {ScriptTokens, ScriptList, ScriptInvalidate, ScriptGenerate, ScriptEmptyScope,
   ScriptBadBody, ScriptLogs}

InitScenario ==
  /\ boot = "connecting"
  /\ clock = 0
  /\ tokens = <<>>
  /\ logs = {}
  /\ pending = {}
  /\ req \in Scripts
  /\ known = {}
  /\ running = 0
  /\ replaced = {}
  /\ lost = {}
  /\ started = <<>>

\* the client sends the next call of its script once the previous one is
\* answered, with an admin token of the scope the step names
ArriveScenario ==
  /\ boot = "ready"
  /\ running = 0
  /\ \E r \in Reqs :
       /\ req[r].pc = "idle"
       /\ \A q \in Reqs : q < r => req[q].pc \in {"done", "hung"}
       /\ \E t \in known :
            /\ t.payload.id = req[r].who /\ t.payload.scope = req[r].cred
            /\ req' = [req EXCEPT ![r].pc = "authenticate",
                          ![r].header = Bearer(t),
                          ![r].quiet = (\A w \in pending : w.op # "token"),
                          ![r].settled = (pending = {})]
  /\ UNCHANGED <<boot, clock, tokens, logs, pending, known, running, replaced, lost, started>>

NextScenario ==
  \/ connect
  \/ setup
  \/ admin
  \/ errorHandlers
  \/ Tick
  \/ DatabaseUpsert
  \/ ArriveScenario
  \/ \E r \in Reqs : authenticate(r)
  \/ \E r \in Reqs : DatabaseFind(r)
  \/ \E r \in Reqs : ConfirmToken(r)
  \/ \E r \in Reqs : secure(r)
  \/ \E r \in Reqs : require(r)
  \/ \E r \in Reqs : access(r)
  \/ \E r \in Reqs : generate(r)
  \/ \E r \in Reqs : invalidate(r)
  \/ \E r \in Reqs : DatabaseRemove(r)
  \/ \E r \in Reqs : RespondRemove(r)
  \/ \E r \in Reqs : list(r)
  \/ \E r \in Reqs : logs_(r)
  \/ \E r \in Reqs : DatabaseList(r)
  \/ \E r \in Reqs : RespondList(r)
  \/ \E r \in Reqs : ErrorHandler(r)

Scenario == InitScenario /\ [][NextScenario]_vars

\* ------------------------------------- one client, a store that may fail
\* generate alice, invalidate alice, read the logs
ScriptFaulty ==
  << Step("post", "/tokens/:user", "alice", Body("array", <<GA>>, 1), adminScope),
     Step("delete", "/tokens/:user", "alice", EmptyBody, adminScope),
     Step("get", "/logs", "", EmptyBody, adminScope) >>

FaultyScripts == {ScriptFaulty, ScriptList}

InitFaulty ==
  /\ boot = "connecting"
  /\ clock = 0
  /\ tokens = <<>>
  /\ logs = {}
  /\ pending = {}
  /\ req \in FaultyScripts
  /\ known = {}
  /\ running = 0
  /\ replaced = {}
  /\ lost = {}
  /\ started = <<>>

NextFaulty ==
  \/ NextScenario
  \/ DatabaseUpsertFails
  \/ \E r \in Reqs : DatabaseFails(r)

Faulty == InitFaulty /\ [][NextFaulty]_vars


\* ------------------------------------------------------------ properties
Has(seq, x) == \E i \in 1..Len(seq) : seq[i] = x

Handlers == {"generate", "invalidate", "list", "logs"}

Dispatched(r) == \E h \in Handlers : Has(req[r].hist, h)

\* the request is answered with the status and code of the named error
Answered(r, name) ==
  /\ req[r].pc = "done"
  /\ req[r].response # NoResponse
  /\ req[r].response[1].status = Errors[name].status
  /\ req[r].response[1].code = Errors[name].code

\* C1: a route handler runs only after, in this order, the header matched the
\* Bearer three-segment format, the signature verified, the token was found
\* live in the store, the structure was validated, the scope held
\* General.Access, the request was audited and the scope held every
\* permission of the matched route
C1_HandlerOnlyAfterGate ==
  \A r \in Reqs :
    Dispatched(r) =>
      /\ req[r].token # <<>>
      /\ matchRoute(req[r].method, req[r].url) # <<>>
      /\ LET rt == matchRoute(req[r].method, req[r].url)[1]
             token == req[r].token[1]
         IN /\ SubSeq(req[r].hist, 1, 8) =
                 <<"header", "signature", "live", "structure", GA, "audit",
                   "permissions", rt.action>>
            /\ req[r].header.scheme = "Bearer"
            /\ req[r].header.nseg = 3
            /\ req[r].header.wordsOk
            /\ req[r].tokenString = req[r].header.tok
            /\ req[r].tokenString.sig = "valid"
            /\ req[r].stored
            /\ req[r].result # <<>>
            /\ req[r].result[1].token = req[r].tokenString
            /\ req[r].result[1].user = token.id
            /\ req[r].result[1].scope = token.scope
            /\ req[r].result[1].status = "enabled"
            /\ token.idKind = "string"
            /\ token.scopeKind = "array"
            /\ GA \in Range(token.scope)
            /\ Range(rt.permissions) \subseteq Range(token.scope)

\* C1 witness: GET /tokens reached actions.list and was answered 200
C1_Witness ==
  \E r \in Reqs :
    /\ req[r].pc = "done"
    /\ Has(req[r].hist, "list")
    /\ req[r].response[1].status = 200

\* the permissions of the route the request matched
Required(r) == Range(matchRoute(req[r].method, req[r].url)[1].permissions)

\* the scope of the authenticated token of the request
Granted(r) == Range(req[r].token[1].scope)

\* C2: a permission check (of the gate, of the matched route) lets the request
\* continue iff the required set is a subset of the granted scope, and
\* otherwise the request fails with TokenPermissionError, answered 401
C2_PermittedIffSubset ==
  \A r \in Reqs :
    /\ (Has(req[r].hist, "structure") /\ req[r].pc # "require") =>
         IF {GA} \subseteq Granted(r)
           THEN Has(req[r].hist, GA)
           ELSE /\ ~Has(req[r].hist, GA)
                /\ req[r].error = "TokenPermissionError"
                /\ (req[r].pc = "done" => Answered(r, "TokenPermissionError"))
    /\ (/\ Has(req[r].hist, "audit")
        /\ matchRoute(req[r].method, req[r].url) # <<>>
        /\ req[r].pc # "routeRequire") =>
         IF Required(r) \subseteq Granted(r)
           THEN Has(req[r].hist, "permissions")
           ELSE /\ ~Has(req[r].hist, "permissions")
                /\ ~Dispatched(r)
                /\ req[r].error = "TokenPermissionError"
                /\ (req[r].pc = "done" =>
                      /\ Answered(r, "TokenPermissionError")
                      /\ req[r].response[1].status = 401)

\* C2 witness: GET /tokens with a token that holds Tokens.Generate and not
\* Tokens.List was answered 401 TokenPermissionError
C2_Witness ==
  \E r \in Reqs :
    /\ req[r].url = "/tokens"
    /\ req[r].token # <<>>
    /\ TG \in Granted(r) /\ TL \notin Granted(r)
    /\ Answered(r, "TokenPermissionError")

\* the request is past internals.confirmToken with a verified signature
Confirmed(r) ==
  /\ Has(req[r].hist, "signature")
  /\ req[r].pc \notin {"idle", "authenticate", "find", "confirmToken"}

\* the store holds an enabled document of this user and scope
Live(user, scope) ==
  \E i \in 1..Len(tokens) :
    /\ tokens[i].user = user
    /\ tokens[i].scope = scope
    /\ tokens[i].status = "enabled"

\* the liveness lookup of request r executes in this step
LookupStep(r) ==
  req[r].pc = "find" /\ req'[r].pc = "confirmToken"

\* C3: when the signature verifies and the store holds no enabled document of
\* the token's user and scope at the liveness lookup, the lookup returns
\* nothing, the request is rejected with JsonWebTokenError (401) and no
\* handler is dispatched
C3_NoRecordRejected ==
  /\ [][\A r \in Reqs :
          LookupStep(r) =>
            (req'[r].result = <<>> <=>
               ~Live(req[r].decoded[1].id, req[r].decoded[1].scope))]_vars
  /\ [](\A r \in Reqs :
          (Confirmed(r) /\ req[r].result = <<>>) =>
            /\ req[r].error = "JsonWebTokenError"
            /\ ~Has(req[r].hist, "live")
            /\ ~Dispatched(r)
            /\ req[r].token = <<>>
            /\ (req[r].pc = "done" =>
                  /\ Answered(r, "JsonWebTokenError")
                  /\ req[r].response[1].status = 401))

\* C3 witness: a validly signed token whose document was not in the store at
\* the lookup was answered 401 JsonWebTokenError
C3_Witness ==
  \E r \in Reqs :
    /\ Confirmed(r)
    /\ req[r].tokenString.sig = "valid"
    /\ req[r].result = <<>>
    /\ Answered(r, "JsonWebTokenError")

\* C4 as stated: once an upsert has overwritten the stored token of a user, a
\* request presenting the overwritten string is rejected with JsonWebTokenError
C4_Original ==
  \A r \in Reqs :
    (Confirmed(r) /\ req[r].stale) => req[r].error = "JsonWebTokenError"

\* C4 amended: a request is accepted only when, at its lookup, the stored
\* document of the token's user and scope carries the presented string; a
\* request presenting an overwritten string that no stored document carries is
\* rejected with JsonWebTokenError, also when the new token has the same scope
C4_StaleRejected ==
  \A r \in Reqs :
    Confirmed(r) =>
      /\ Has(req[r].hist, "live") =>
           /\ req[r].stored
           /\ req[r].result # <<>>
           /\ req[r].result[1].token = req[r].tokenString
      /\ (req[r].stale /\ ~req[r].stored) =>
           /\ req[r].error = "JsonWebTokenError"
           /\ ~Has(req[r].hist, "live")
           /\ ~Dispatched(r)
           /\ (req[r].pc = "done" => Answered(r, "JsonWebTokenError"))

\* C4 witness: the presented string had been overwritten by a token of the
\* same user and scope with another string, and the request was answered 401
C4_Witness ==
  \E r \in Reqs :
    /\ Confirmed(r)
    /\ req[r].stale /\ ~req[r].stored
    /\ req[r].result # <<>>
    /\ req[r].result[1].scope = req[r].tokenString.payload.scope
    /\ req[r].result[1].token # req[r].tokenString
    /\ Answered(r, "JsonWebTokenError")

\* C5 as stated (one client, in sequence): once invalidate has removed the
\* token document of a user, every later request that presents the string of
\* the removed document, with a signature that verifies, fails with
\* JsonWebTokenError
C5_Original ==
  \A d \in Reqs : \A r \in Reqs :
    (/\ d < r
     /\ Confirmed(r)
     /\ req[r].tokenString \in {x.token : x \in req[d].removedDocs}) =>
      req[r].error = "JsonWebTokenError"

\* the store executes the removal of request r in this step
RemoveStep(r) ==
  req[r].pc = "remove" /\ req'[r].pc = "removed"

\* C6: invalidate of a user without a token document removes nothing, leaves
\* the tokens collection unchanged and is answered 409 NothingToRemoveError
C6_NothingToRemove ==
  /\ [][\A r \in Reqs :
          RemoveStep(r) =>
            /\ req'[r].removed = 0 <=>
                 ~(\E i \in 1..Len(tokens) : tokens[i].user = req[r].user)
            /\ req'[r].removed = 0 => tokens' = tokens]_vars
  /\ [](\A r \in Reqs :
          (req[r].pc = "done" /\ Has(req[r].hist, "invalidate")
             /\ req[r].removed = 0) =>
            /\ Answered(r, "NothingToRemoveError")
            /\ req[r].response[1].status = 409
            /\ req[r].response[1].code = 107)

\* C6 witness: an invalidate that removed nothing was answered 409
C6_Witness ==
  \E r \in Reqs :
    /\ Has(req[r].hist, "invalidate")
    /\ req[r].removed = 0
    /\ req[r].removedDocs = {}
    /\ Answered(r, "NothingToRemoveError")

\* the store executes the token write w in this step
UpsertStep(w) ==
  w \in pending /\ w.op = "token" /\ pending' = pending \ {w}

\* the documents of a user in a tokens collection
DocsOf(collection, user) ==
  {i \in 1..Len(collection) :
     collection[i].user = user /\ collection[i].status = "enabled"}

\* C7: in every reachable state the tokens collection holds at most one enabled
\* document per user, and after the store executes a token write the single
\* document of that user is the written one (the last writer wins)
C7_OneTokenPerUser ==
  /\ [](\A u \in Users : Cardinality(DocsOf(tokens, u)) <= 1)
  /\ [][\A w \in pending :
          UpsertStep(w) =>
            /\ Cardinality(DocsOf(tokens', w.data.user)) = 1
            /\ \A i \in DocsOf(tokens', w.data.user) : tokens'[i] = w.data]_vars

\* C7 witness: two generate calls for the same user were in flight together,
\* both writes are executed, and one document of the user is stored
C7_Witness ==
  \E r \in Reqs : \E q \in Reqs :
    /\ r # q
    /\ Has(req[r].hist, "generate") /\ Has(req[q].hist, "generate")
    /\ req[r].user = req[q].user
    /\ req[r].pc = "done" /\ req[q].pc = "done"
    /\ req[r].response[1].status = 201 /\ req[q].response[1].status = 201
    /\ req[r].response[1].token # req[q].response[1].token
    /\ \A w \in pending : w.op # "token"
    /\ Cardinality(DocsOf(tokens, req[r].user)) = 1

\* the requests are the calls of the given script
Runs(script) ==
  /\ DOMAIN req = DOMAIN script
  /\ \A i \in DOMAIN script :
       /\ req[i].method = script[i].method
       /\ req[i].url = script[i].url
       /\ req[i].user = script[i].user
       /\ req[i].body = script[i].body

AllDone == \A r \in Reqs : req[r].pc = "done"

\* C8 as stated (one client, in sequence): generate(alice, S) and then
\* generate(alice, S') leave exactly one enabled document of alice, with scope
\* S' and the token string that the second call returned
C8_Original ==
  (/\ Runs(ScriptGenerate)
   /\ AllDone
   /\ req[1].response[1].status = 201
   /\ req[2].response[1].status = 201
   /\ \A w \in pending : w.op # "token") =>
    /\ Cardinality(DocsOf(tokens, "alice")) = 1
    /\ \A i \in DocsOf(tokens, "alice") :
         /\ tokens[i].scope = req[2].body.scope
         /\ <<tokens[i].token>> = req[2].response[1].token

\* the store writes issued for request r, executed or not
WritesOf(r) ==
  {w \in pending : w.rid = r} \cup {w \in lost : w.rid = r} \cup
  {[op |-> "log", rid |-> r, data |-> d] : d \in {e \in logs : e.rid = r}}

\* C9 as stated: a request without a well-formed Bearer header is answered
\* 400 InvalidPayloadError and no store read or write is issued for it
C9_Original ==
  \A r \in Reqs :
    (~tokenFormat(req[r].header) /\ req[r].pc = "done") =>
      /\ Answered(r, "InvalidPayloadError")
      /\ WritesOf(r) = {}

\* C9 amended: a request without a well-formed Bearer header is answered 400
\* InvalidPayloadError without any read or write of the tokens collection and
\* without passing any stage; the one store call made for it is the write of
\* the error log entry by the ErrorHandler
C9_BadHeaderRejected ==
  \A r \in Reqs :
    (req[r].pc # "idle" /\ ~(/\ req[r].header.scheme = "Bearer"
                             /\ req[r].header.nseg = 3
                             /\ req[r].header.wordsOk)) =>
      /\ req[r].pc \in {"authenticate", "error", "done"}
      /\ req[r].hist = <<>>
      /\ req[r].result = <<>> /\ req[r].removedDocs = {} /\ req[r].records = <<>>
      /\ \A w \in WritesOf(r) : w.op = "log" /\ w.data.type = "error"
      /\ req[r].pc = "done" =>
           /\ Answered(r, "InvalidPayloadError")
           /\ req[r].response[1].status = 400
           /\ Cardinality(WritesOf(r)) = 1

\* C9 witness: a request with a two-segment Bearer header was answered 400 and
\* its error log entry is stored
C9_Witness ==
  \E r \in Reqs :
    /\ req[r].header.scheme = "Bearer" /\ req[r].header.nseg = 2
    /\ Answered(r, "InvalidPayloadError")
    /\ \E e \in logs : e.rid = r /\ e.type = "error"

\* every request of the run passed the signature check (the token it was made
\* with had not expired)
AllVerified == \A r \in Reqs : Has(req[r].hist, "signature")

\* C10 as stated: made with the bootstrap admin token, POST /tokens/alice,
\* GET /tokens, DELETE /tokens/alice, DELETE /tokens/alice are answered 201
\* with a token, 200 with a listing that holds alice, 200 with one document
\* removed, 409 NothingToRemoveError
C10_Original ==
  (Runs(ScriptTokens) /\ AllDone /\ AllVerified) =>
    /\ req[1].response[1].status = 201 /\ req[1].response[1].token # <<>>
    /\ req[2].response[1].status = 200
    /\ \E i \in 1..Len(req[2].response[1].records) :
         req[2].response[1].records[i].user = "alice"
    /\ req[3].response[1].status = 200 /\ req[3].response[1].removed = 1
    /\ Answered(4, "NothingToRemoveError")

\* request r, a DELETE, was answered 200 with one document removed
RemovedOne(r) ==
  req[r].response[1].status = 200 /\ req[r].response[1].removed = 1

\* C10 amended: the four calls are answered 201 with a token, 401
\* TokenPermissionError (GET /tokens requires Tokens.List, which the bootstrap
\* token lacks), and each DELETE either 200 with one document removed or 409
\* NothingToRemoveError, at most one of them 200; when the store had executed
\* the token write of the first call before the first DELETE was sent, the
\* first DELETE is the one answered 200 and the second is answered 409
C10_Scenario ==
  (Runs(ScriptTokens) /\ AllDone /\ AllVerified) =>
    /\ req[1].response[1].status = 201 /\ req[1].response[1].token # <<>>
    /\ Answered(2, "TokenPermissionError")
    /\ req[2].response[1].status = 401
    /\ req[2].response[1].records = <<>>
    /\ \A r \in {3, 4} : RemovedOne(r) \/ Answered(r, "NothingToRemoveError")
    /\ ~(RemovedOne(3) /\ RemovedOne(4))
    /\ req[3].quiet =>
         /\ req[3].response[1].status = 200 /\ req[3].response[1].removed = 1
         /\ Answered(4, "NothingToRemoveError")
         /\ req[4].response[1].status = 409

\* C10 witness: the whole script was answered 201, 401, 200 (one removed), 409
C10_Witness ==
  /\ Runs(ScriptTokens) /\ AllDone /\ AllVerified
  /\ req[3].quiet
  /\ req[1].response[1].status = 201
  /\ req[2].response[1].status = 401
  /\ req[3].response[1].removed = 1
  /\ req[4].response[1].status = 409

\* the claims of the bootstrap token, and the strings it can be signed to
adminClaims == Claims("admin", "array", adminScope, AdminValidity)

BootTokens == {sign(adminClaims, AdminValidity, t) : t \in 0..MaxClock}

\* C11 as stated: once the bootstrap has run and its store write is no longer
\* in flight, and no request has targeted user admin, the tokens collection
\* holds exactly one document of admin: enabled, of authority admin, with the
\* bootstrap scope and the token string the bootstrap signed
C11_Original ==
  (/\ Has(started, "admin")
   /\ \A w \in pending : ~(w.op = "token" /\ w.rid = 0)
   /\ \A r \in Reqs : req[r].pc # "idle" => req[r].user # "admin") =>
    /\ Cardinality({i \in 1..Len(tokens) : tokens[i].user = "admin"}) = 1
    /\ \A i \in 1..Len(tokens) :
         tokens[i].user = "admin" =>
           /\ tokens[i].status = "enabled"
           /\ tokens[i].authority = "admin"
           /\ tokens[i].scope = adminScope
           /\ tokens[i].token \in BootTokens

\* the store writes issued by the startup chain, executed or not
BootWrites ==
  {w \in pending \cup lost : w.rid = 0} \cup {e \in logs : e.rid = 0}

\* C12: in one startup the bootstrap runs at most once, and only after
\* connect, application and routes have run in this order; when the connection
\* fails no step of the chain runs and nothing is written
C12_BootstrapOnce ==
  /\ Cardinality({i \in 1..Len(started) : started[i] = "admin"}) <= 1
  /\ \A i \in 1..Len(started) :
       started[i] = "admin" =>
         SubSeq(started, 1, i) = <<"connect", "application", "routes", "admin">>
  /\ (BootWrites # {} \/ tokens # <<>>) => Has(started, "admin")
  /\ (boot = "failed" \/ ~Has(started, "connect")) =>
       /\ started = <<>>
       /\ BootWrites = {} /\ tokens = <<>>
       /\ \A r \in Reqs : req[r].pc = "idle"

\* C12 witness: the whole chain has run, with one bootstrap, and the bootstrap
\* document is stored
C12_Witness ==
  /\ boot = "ready"
  /\ started = <<"connect", "application", "routes", "admin", "errorHandlers">>
  /\ \E i \in 1..Len(tokens) : tokens[i].user = "admin"

\* the statuses of the table of Errors.js
TableStatuses == {Errors[n].status : n \in DOMAIN Errors}

\* C13 as stated: a request that failed with an error is answered with the
\* status and code that the table gives for the error name (those of
\* DefaultError for a name outside the table), so with a status of the table
C13_Original ==
  \A r \in Reqs :
    (req[r].pc = "done" /\ req[r].error # "") =>
      LET triple == IF req[r].error \in DOMAIN Errors THEN Errors[req[r].error]
                    ELSE Errors.DefaultError
      IN /\ req[r].response[1].status = triple.status
         /\ req[r].response[1].code = triple.code
         /\ req[r].response[1].status \in TableStatuses

\* the error-type audit writes attempted for request r
ErrorWritesOf(r) ==
  {w \in WritesOf(r) : w.op = "log" /\ w.data.type = "error"}

\* C14 as stated: every request answered with an error status got exactly one
\* response and exactly one error-type audit write was attempted for it
C14_Original ==
  \A r \in Reqs :
    (req[r].pc = "done" /\ req[r].response[1].status >= 400
       /\ req[r].response[1].status # 404) =>
      /\ Len(req[r].response) = 1
      /\ Cardinality(ErrorWritesOf(r)) = 1

\* the store settles the log write w in this step, by executing or failing it
LogWriteStep(w) ==
  w \in pending /\ w.op = "log" /\ pending' = pending \ {w}

\* C15: the response of a request does not depend on what becomes of its
\* audit writes: a step that executes or fails a log write changes no request,
\* a response once sent stays as it is, and no listing of the logs that a
\* request is answered with holds an entry written for that same request
C15_AuditNeverAltersResponse ==
  /\ [][\A w \in pending : LogWriteStep(w) => req' = req]_vars
  /\ [][\A r \in Reqs :
          req[r].response # NoResponse =>
            req'[r].response = req[r].response]_vars
  /\ [](\A r \in Reqs :
          Has(req[r].hist, "logs") =>
            \A i \in 1..Len(req[r].records) : req[r].records[i].rid # r)

\* C15 witness: a request was answered 201 although its request-type audit
\* write failed, and another was answered while its audit write is in flight
C15_Witness ==
  \E r \in Reqs :
    /\ req[r].pc = "done"
    /\ req[r].response[1].status = 201
    /\ \E w \in lost : w.rid = r /\ w.op = "log" /\ w.data.type = "request"
    /\ \E q \in Reqs :
         /\ Has(req[q].hist, "logs") /\ req[q].pc = "done"
         /\ req[q].response[1].status = 200

\* the token writes issued for request r that are in flight or failed
TokenWritesOf(r) ==
  {w \in pending \cup lost : w.op = "token" /\ w.rid = r}

\* the request-type audit writes attempted for request r
RequestWritesOf(r) ==
  {w \in WritesOf(r) : w.op = "log" /\ w.data.type = "request"}

\* C16 as stated: a request rejected at any stage, the permission check of
\* the route included, has no request-type audit entry, and no token document
\* was written or removed for it
C16_Original ==
  \A r \in Reqs :
    req[r].error # "" =>
      /\ RequestWritesOf(r) = {}
      /\ TokenWritesOf(r) = {}
      /\ req[r].removedDocs = {}

\* the order of the stages of a request
StageOrder ==
  <<"header", "signature", "live", "structure", GA, "audit", "permissions">>

\* C16 amended: a request rejected at a stage has passed exactly the stages
\* before it, and nothing of a later stage happened: no token document was
\* written, removed or listed for it and its answer carries no token. It has
\* a request-type audit entry exactly when it was rejected after the audit
\* stage (by the permission check of the route or by generate's validation)
\* and its path is not /logs
C16_ShortCircuit ==
  \A r \in Reqs :
    req[r].error # "" =>
      /\ \E n \in 0..Len(StageOrder) :
           \/ req[r].hist = SubSeq(StageOrder, 1, n)
           \/ n = Len(StageOrder) /\ req[r].hist = StageOrder \o <<"generate">>
      /\ TokenWritesOf(r) = {}
      /\ req[r].removedDocs = {} /\ req[r].removed = 0
      /\ req[r].records = <<>>
      /\ req[r].pc \in {"error", "done"}
      /\ req[r].pc = "done" => req[r].response[1].token = <<>>
      /\ RequestWritesOf(r) # {} <=>
           (Has(req[r].hist, "audit") /\ req[r].url # "/logs")
      /\ Cardinality(RequestWritesOf(r)) <= 1

\* C16 witness: a request was rejected by the permission check of its route,
\* after the audit stage, with one request-type audit entry and nothing else
C16_Witness ==
  \E q \in Reqs :
    /\ Answered(q, "TokenPermissionError")
    /\ req[q].hist = SubSeq(StageOrder, 1, 6)
    /\ Cardinality(RequestWritesOf(q)) = 1
    /\ TokenWritesOf(q) = {}

\* C17 as stated: a request whose store call failed (the liveness lookup, the
\* removal, a listing) is carried to the error translator; it is never left
\* without a continuation that answers it
C17_Original ==
  \A r \in Reqs : req[r].pc # "hung"

\* C18 as stated: generate answers 201 with a token only if the token
\* document was stored; a failed token write is answered with DefaultError
C18_Original ==
  \A r \in Reqs :
    (/\ req[r].pc = "done"
     /\ Has(req[r].hist, "generate")
     /\ \E w \in lost : w.op = "token" /\ w.rid = r) =>
      /\ Answered(r, "DefaultError")
      /\ req[r].response[1].token = <<>>

\* C19 as stated: claims pass structural validation only with a non-empty
\* string id and a non-empty array scope; a request whose verified and live
\* token has an empty id or an empty scope is answered InvalidPayloadError
C19_Original ==
  \A r \in Reqs :
    /\ Has(req[r].hist, "structure") =>
         /\ req[r].token[1].idKind = "string" /\ req[r].token[1].id # ""
         /\ req[r].token[1].scopeKind = "array" /\ req[r].token[1].scope # <<>>
    /\ (/\ req[r].pc = "done"
        /\ Has(req[r].hist, "live")
        /\ (req[r].token[1].id = "" \/ req[r].token[1].scope = <<>>)) =>
         Answered(r, "InvalidPayloadError")

\* C20 as stated: generate called with a scope that is missing, not an array
\* or empty fails with InvalidPayloadError, returns no token and issues no
\* token write
C20_Original ==
  \A r \in Reqs :
    (/\ req[r].pc = "done"
     /\ Has(req[r].hist, "generate")
     /\ (req[r].body.scopeKind # "array" \/ req[r].body.scope = <<>>)) =>
      /\ Answered(r, "InvalidPayloadError")
      /\ req[r].response[1].token = <<>>
      /\ TokenWritesOf(r) = {}

\* the audit writes attempted for request r
AuditWritesOf(r) ==
  {w \in WritesOf(r) : w.op = "log"}

\* C21 as stated: a request that completed the gate has exactly one
\* request-type audit entry, none when its path is /logs, and no request has
\* more than one audit entry in total
C21_Original ==
  \A r \in Reqs :
    /\ Has(req[r].hist, "audit") =>
         Cardinality(RequestWritesOf(r)) = IF req[r].url = "/logs" THEN 0 ELSE 1
    /\ Cardinality(AuditWritesOf(r)) <= 1

\* C21 amended: a request has exactly one request-type audit entry when it
\* completed the gate and its path is not /logs, and none otherwise; it has
\* exactly one error-type entry when the ErrorHandler answered it, and none
\* otherwise; so a request rejected after the gate has two entries in total
C21_OneRequestEntry ==
  \A r \in Reqs :
    /\ Cardinality(RequestWritesOf(r)) =
         IF Has(req[r].hist, "audit") /\ req[r].url # "/logs" THEN 1 ELSE 0
    /\ Cardinality(ErrorWritesOf(r)) =
         IF req[r].error # "" /\ req[r].pc = "done" THEN 1 ELSE 0
    /\ AuditWritesOf(r) = RequestWritesOf(r) \cup ErrorWritesOf(r)
    /\ \A w \in AuditWritesOf(r) :
         w.data.endpoint = req[r].url /\ w.data.method = req[r].method

\* C21 witness: a dispatched request with its one request-type entry, and a
\* dispatched /logs request with none
C21_Witness ==
  \E r \in Reqs : \E q \in Reqs :
    /\ req[r].pc = "done" /\ Has(req[r].hist, "generate")
    /\ Cardinality(AuditWritesOf(r)) = 1
    /\ req[q].pc = "done" /\ Has(req[q].hist, "logs")
    /\ AuditWritesOf(q) = {}

\* C22: the logs collection only grows: every step leaves every stored audit
\* entry in place and unchanged
C22_AuditAppendOnly ==
  [][logs \subseteq logs']_vars

\* C22 witness: entries of the bootstrap, of a request and of an error are
\* stored side by side
C22_Witness ==
  /\ \E e \in logs : e.type = "operation"
  /\ \E e \in logs : e.type = "request"
  /\ \E e \in logs : e.type = "error"
  /\ \E e \in logs : \E f \in logs : e # f /\ e.user = f.user

\* request r leaves actions.authenticate in this step
AuthStep(r) ==
  req[r].pc = "authenticate" /\ req'[r].pc # "authenticate"

\* the header of request r is a Bearer header of three base64url words
WellFormed(r) ==
  /\ req[r].header.scheme = "Bearer"
  /\ req[r].header.nseg = 3
  /\ req[r].header.wordsOk

\* C23: with a well-formed header, a token that is not validly signed or
\* does not decode fails with JsonWebTokenError and a validly signed token
\* past its expiry fails with TokenExpiredError; both are answered 401, the
\* store is not consulted for liveness and no handler is dispatched
C23_VerificationFailure ==
  /\ [][\A r \in Reqs :
          (AuthStep(r) /\ WellFormed(r) /\ ~req[r].body.malformed) =>
            LET t == req[r].header.tok
            IN /\ t.sig # "valid" =>
                    req'[r].error = "JsonWebTokenError" /\ req'[r].pc = "error"
               /\ (t.sig = "valid" /\ clock >= t.exp) =>
                    req'[r].error = "TokenExpiredError" /\ req'[r].pc = "error"
               /\ (t.sig = "valid" /\ clock < t.exp) =>
                    req'[r].error = "" /\ req'[r].pc = "find"]_vars
  /\ [](\A r \in Reqs :
          (/\ req[r].error \in {"JsonWebTokenError", "TokenExpiredError"}
           /\ ~Has(req[r].hist, "signature")) =>
            /\ req[r].hist = <<"header">>
            /\ req[r].result = <<>> /\ ~req[r].stored /\ ~req[r].stale
            /\ ~Dispatched(r)
            /\ req[r].pc \in {"error", "done"}
            /\ req[r].pc = "done" =>
                 /\ Answered(r, req[r].error)
                 /\ req[r].response[1].status = 401)

\* C23 witness: a token signed by generate was presented after its expiry and
\* answered TokenExpiredError
C23_Witness ==
  \E r \in Reqs :
    /\ req[r].tokenString.sig = "valid"
    /\ clock >= req[r].tokenString.exp
    /\ req[r].hist = <<"header">>
    /\ Answered(r, "TokenExpiredError")
    /\ req[r].response[1].code = 103

\* C24 as stated: a successful response has status 200, or 201 when it is
\* the response of generate; a failure response has the status and the code
\* of an error kind of the table
C24_Original ==
  \A r \in Reqs :
    req[r].pc = "done" =>
      /\ req[r].response[1].status < 400 =>
           req[r].response[1].status =
             IF Has(req[r].hist, "generate") THEN 201 ELSE 200
      /\ req[r].response[1].status >= 400 =>
           \E n \in DOMAIN Errors :
             /\ req[r].response[1].status = Errors[n].status
             /\ req[r].response[1].code = Errors[n].code

Rank(pc) ==
  CASE pc = "idle" -> 0
    [] pc = "authenticate" -> 1
    [] pc = "find" -> 2
    [] pc = "confirmToken" -> 3
    [] pc = "secure" -> 4
    [] pc = "require" -> 5
    [] pc = "access" -> 6
    [] pc = "routeRequire" -> 7
    [] pc = "handler" -> 8
    [] pc \in {"remove", "list"} -> 9
    [] pc \in {"removed", "listed"} -> 10
    [] pc = "error" -> 11
    [] OTHER -> 12

\* C26: no stage of a request runs twice: every step of a request moves it
\* to a later position of the pipeline, and each stage and handler is entered
\* in its history at most once
C26_AtMostOnce ==
  /\ [][\A r \in Reqs :
          req'[r] # req[r] => Rank(req'[r].pc) > Rank(req[r].pc)]_vars
  /\ [](\A r \in Reqs :
          \A i \in 1..Len(req[r].hist) : \A j \in 1..Len(req[r].hist) :
            i # j => req[r].hist[i] # req[r].hist[j])

\* C26 witness: a request went through every stage and its handler, and
\* another was rejected by the liveness lookup, each stage once
C26_Witness ==
  \E r \in Reqs : \E q \in Reqs :
    /\ req[r].pc = "done"
    /\ req[r].hist = StageOrder \o <<"invalidate">>
    /\ req[q].pc = "done"
    /\ req[q].hist = <<"header", "signature">>
    /\ req[q].error = "JsonWebTokenError"

\* C27: the document that a successful generate hands to the store, and the
\* claims of the token it returns, carry the user of the request path as user
\* and id, the scope of the body, status enabled and the id of the
\* authenticated issuer as authority; the store keeps the document as written
C27_GeneratedRecord ==
  /\ [](\A w \in pending :
          (w.op = "token" /\ w.rid # 0) =>
            /\ Has(req[w.rid].hist, "generate")
            /\ req[w.rid].response[1].status = 201
            /\ req[w.rid].response[1].token = <<w.data.token>>
            /\ w.data.user = req[w.rid].user
            /\ w.data.token.payload.id = req[w.rid].user
            /\ w.data.scope = req[w.rid].body.scope
            /\ w.data.token.payload.scope = req[w.rid].body.scope
            /\ w.data.status = "enabled"
            /\ w.data.authority = req[w.rid].token[1].id)
  /\ [](\A r \in Reqs :
          (req[r].pc = "done" /\ Has(req[r].hist, "generate")
             /\ req[r].error = "") =>
            /\ req[r].response[1].status = 201
            /\ req[r].response[1].token[1].payload.id = req[r].user
            /\ req[r].response[1].token[1].payload.scope = req[r].body.scope)
  /\ [][\A w \in pending :
          (UpsertStep(w) /\ tokens' # tokens) =>
            \E i \in 1..Len(tokens') : tokens'[i] = w.data]_vars

\* C27 witness: the document of a token that admin generated for alice is
\* stored, with authority admin
C27_Witness ==
  \E r \in Reqs : \E i \in 1..Len(tokens) :
    /\ req[r].pc = "done" /\ Has(req[r].hist, "generate")
    /\ req[r].user = "alice"
    /\ req[r].token[1].id = "admin"
    /\ <<tokens[i].token>> = req[r].response[1].token
    /\ tokens[i].user = "alice"
    /\ tokens[i].authority = "admin"
    /\ tokens[i].scope = req[r].body.scope

\* C28: the tokens collection changes only when the store executes the
\* write of the bootstrap or of a dispatched generate, or the removal of a
\* dispatched invalidate; no other step of any request changes it, and only
\* such requests have a write or a removal issued for them
C28_GateNeverWrites ==
  /\ [][tokens' # tokens =>
          \/ \E w \in pending :
               /\ UpsertStep(w)
               /\ w.rid = 0 \/ Has(req[w.rid].hist, "generate")
          \/ \E r \in Reqs :
               RemoveStep(r) /\ Has(req[r].hist, "invalidate")]_vars
  /\ [][\A r \in Reqs :
          (req'[r] # req[r] /\ ~RemoveStep(r)) => tokens' = tokens]_vars
  /\ [](\A w \in pending :
          w.op = "token" =>
            \/ w.rid = 0
            \/ Has(req[w.rid].hist, "generate") /\ req[w.rid].error = "")
  /\ [](\A r \in Reqs :
          (req[r].pc \in {"remove", "removed"} \/ req[r].removedDocs # {}) =>
            Has(req[r].hist, "invalidate") /\ req[r].error = "")

\* C28 witness: a request listed the tokens, and the listing is the
\* collection, which holds two documents
C28_Witness ==
  \E r \in Reqs :
    /\ req[r].pc = "done" /\ Has(req[r].hist, "list")
    /\ req[r].response[1].records = tokens
    /\ Len(tokens) = 2

\* C29: a request to /logs has no request-type audit entry, and none at all
\* when it is not rejected; a rejected one has its error-type entry; and two
\* listings of the logs in sequence, the first sent when no store write was
\* in flight, return the same sequence
C29_LogsListingQuiet ==
  /\ \A r \in Reqs :
       req[r].url = "/logs" =>
         /\ RequestWritesOf(r) = {}
         /\ req[r].error = "" => AuditWritesOf(r) = {}
         /\ (req[r].error # "" /\ req[r].pc = "done") =>
              Cardinality(ErrorWritesOf(r)) = 1
  /\ (/\ Runs(ScriptLogs) /\ AllDone
      /\ req[1].settled
      /\ req[1].response[1].status = 200
      /\ req[2].response[1].status = 200) =>
       req[2].response[1].records = req[1].response[1].records

\* C29 witness: the logs were listed twice with the same non-empty result
C29_Witness ==
  /\ Runs(ScriptLogs) /\ AllDone
  /\ req[1].settled
  /\ req[1].response[1].status = 200
  /\ req[2].response[1].status = 200
  /\ req[1].response[1].records # <<>>
  /\ req[2].response[1].records = req[1].response[1].records
  /\ AuditWritesOf(1) = {} /\ AuditWritesOf(2) = {}

\* the token documents stored or handed to the store so far
TokenDocs ==
  Range(tokens) \cup {w.data : w \in {x \in pending \cup lost : x.op = "token"}}

\* C30: every token document, stored or on its way to the store, has status
\* 'enabled', a string user and an array scope; none has status 'disabled'
C30_TokenRecordShape ==
  \A d \in TokenDocs :
    /\ d.status = "enabled" /\ d.status # "disabled"
    /\ d.user \in Users /\ d.token.payload.idKind = "string"
    /\ d.user = d.token.payload.id
    /\ d.token.payload.scopeKind = "array"
    /\ d.scope = d.token.payload.scope

\* C30 witness: the store holds the bootstrap document and a generated one
C30_Witness ==
  /\ Len(tokens) >= 2
  /\ \E i \in 1..Len(tokens) : tokens[i].user # "admin"
  /\ \E r \in Reqs : Action(r) = "generate" /\ req[r].status = 201
                     /\ TokenWritesOf(r) = {}
  /\ \A i \in 1..Len(tokens) : tokens[i].status = "enabled"

\* the presented string is the string of a stored document
InStore(r) ==
  \E d \in Range(tokens) : d.token = req[r].tokenString

\* C31: the liveness lookup is issued once per request, by authentication, and
\* its result is all that confirmation looks at: a request whose lookup
\* returned the matching document goes on to the rest of the chain whatever
\* the store holds by then, so a handler can be entered for a token whose
\* document another request removed or replaced after the lookup
C31_LivenessCheckedOnce ==
  [][\A r \in Reqs :
       /\ (req'[r].pc = "find" /\ req[r].pc # "find") =>
            req[r].pc = "authenticate"
       /\ req'[r].result # req[r].result => LookupStep(r)
       /\ (/\ req[r].pc = "confirmToken" /\ req'[r].pc # "confirmToken"
           /\ req[r].result # <<>>
           /\ req[r].result[1].token = req[r].tokenString) =>
            /\ req'[r].pc = "secure"
            /\ req'[r].token = req[r].decoded
            /\ req'[r].error = ""]_vars

\* a handler is entered for a token that was stored at the lookup and whose
\* document an invalidate of another request has removed since
EnteredAfterRemoval(r) ==
  /\ req[r].pc = "handler" /\ running = r
  /\ req[r].stored /\ ~InStore(r)
  /\ \E q \in Reqs \ {r} :
       req[r].tokenString \in {x.token : x \in req[q].removedDocs}

\* the same, the document replaced by the upsert of a generate
EnteredAfterReplacement(r) ==
  /\ req[r].pc = "handler" /\ running = r
  /\ req[r].stored /\ ~InStore(r)
  /\ req[r].tokenString \in replaced
  /\ \E q \in Reqs \ {r} :
       Has(req[q].hist, "generate") /\ TokenWritesOf(q) = {}

\* C31 witness: a handler is entered for a token whose document was in the
\* store at the lookup and that an invalidate or an upsert of another request
\* has taken out of the store since
C31_Witness ==
  \E r \in Reqs : EnteredAfterRemoval(r) \/ EnteredAfterReplacement(r)

\* a generate has returned the presented string and its upsert has not been
\* executed by the store
Fresh(r) ==
  \E w \in pending \cup lost :
    /\ w.op = "token" /\ w.rid # 0
    /\ w.data.token = req[r].tokenString

\* C32 as stated: a request presenting a token that generate has returned, and
\* whose lookup runs before the upsert of that generate is executed, is not
\* confirmed
C32_Original ==
  [][\A r \in Reqs :
       (LookupStep(r) /\ Fresh(r)) =>
         ~confirmToken(req'[r].result, req[r].tokenString)]_vars

\* C32 amended: generate answers with its upsert still in flight; a request
\* presenting the returned token whose lookup runs before the upsert is
\* executed is rejected with JsonWebTokenError, unless a stored document
\* already carries the same string; a lookup that runs while the document
\* with the string is stored confirms the token
C32_FreshTokenRace ==
  /\ [][\A r \in Reqs :
          /\ (Has(req'[r].hist, "generate") /\ ~Has(req[r].hist, "generate")
              /\ req'[r].error = "") =>
               /\ req'[r].pc = "done"
               /\ req'[r].response[1].status = 201
               /\ \E w \in pending' \ pending :
                    /\ w.op = "token" /\ w.rid = r
                    /\ <<w.data.token>> = req'[r].response[1].token
               /\ tokens' = tokens
          /\ (LookupStep(r) /\ Fresh(r) /\ ~InStore(r)) =>
               /\ ~confirmToken(req'[r].result, req[r].tokenString)
               /\ ~req'[r].stored
          /\ (LookupStep(r) /\ InStore(r)) =>
               /\ confirmToken(req'[r].result, req[r].tokenString)
               /\ req'[r].stored]_vars
  /\ [](\A r \in Reqs :
          Confirmed(r) =>
            IF req[r].stored
              THEN Has(req[r].hist, "live") /\ req[r].error # "JsonWebTokenError"
              ELSE /\ req[r].error = "JsonWebTokenError"
                   /\ ~Dispatched(r)
                   /\ (req[r].pc = "done" => Answered(r, "JsonWebTokenError")))

\* C32 witness: the token that a generate returned was presented and rejected
\* with JsonWebTokenError because the lookup ran before the upsert, and the
\* upsert has been executed since
C32_Witness ==
  \E g \in Reqs : \E r \in Reqs :
    /\ g # r
    /\ Has(req[g].hist, "generate") /\ req[g].pc = "done"
    /\ req[g].response[1].status = 201
    /\ req[g].response[1].token = <<req[r].tokenString>>
    /\ ~req[r].stored /\ ~req[r].stale
    /\ Answered(r, "JsonWebTokenError")
    /\ TokenWritesOf(g) = {}
    /\ InStore(r)

\* request r is POST /tokens/:user with an array scope, presented with a live
\* token that holds General.Access and Tokens.Generate
IssuerMayGenerate(r) ==
  /\ req[r].method = "post" /\ req[r].url = "/tokens/:user"
  /\ Has(req[r].hist, "live")
  /\ {GA, TG} \subseteq Granted(r)
  /\ req[r].body.scopeKind = "array"

\* C33: whatever the scope of the issuer beyond General.Access and
\* Tokens.Generate, whoever the target user and whatever the array asked for,
\* generate answers 201 and hands the store an enabled document of the target
\* user with exactly the scope asked for
C33_UnconstrainedScope ==
  /\ [](\A r \in Reqs :
          (IssuerMayGenerate(r) /\ req[r].pc = "done") =>
            /\ req[r].error = ""
            /\ req[r].response[1].status = 201
            /\ req[r].response[1].token[1].payload.id = req[r].user
            /\ req[r].response[1].token[1].payload.scope = req[r].body.scope)
  /\ [][\A r \in Reqs :
          (IssuerMayGenerate(r) /\ req[r].pc = "handler"
             /\ req'[r].pc # "handler") =>
            \E w \in pending' \ pending :
              /\ w.op = "token" /\ w.rid = r
              /\ w.data.user = req[r].user
              /\ w.data.scope = req[r].body.scope
              /\ w.data.status = "enabled"]_vars

\* an issuer has obtained for user u a stored enabled token with a permission
\* that the issuer does not hold
Escalated(r, u) ==
  /\ IssuerMayGenerate(r) /\ req[r].pc = "done"
  /\ req[r].user = u
  /\ TL \in Range(req[r].body.scope) /\ TL \notin Granted(r)
  /\ \E i \in 1..Len(tokens) :
       /\ <<tokens[i].token>> = req[r].response[1].token
       /\ tokens[i].user = u
       /\ tokens[i].scope = req[r].body.scope
       /\ tokens[i].status = "enabled"

\* C33 witness: an issuer without Tokens.List has obtained for itself a stored
\* enabled token that holds Tokens.List
C33_Witness ==
  \E r \in Reqs : Escalated(r, req[r].token[1].id)

\* the documents of a tokens collection that are not keyed by user u, in order
Others(collection, u) ==
  LET NotOf(d) == d.user # u
  IN SelectSeq(collection, NotOf)

\* C34: when the store executes the upsert of a generate for u or of the
\* bootstrap (u = admin), or the removal of an invalidate of u, the documents
\* of every other user stay as they were; the documents the step takes out
\* of the store are documents of u, and no other step changes the collection
C34_OwnUserOnly ==
  [][/\ \A w \in pending :
          UpsertStep(w) =>
            /\ Others(tokens', w.data.user) = Others(tokens, w.data.user)
            /\ w.rid = 0 => w.data.user = "admin"
            /\ w.rid # 0 => w.data.user = req[w.rid].user
     /\ \A r \in Reqs :
          RemoveStep(r) =>
            /\ Others(tokens', req[r].user) = Others(tokens, req[r].user)
            /\ \A d \in req'[r].removedDocs : d.user = req[r].user
     /\ tokens' # tokens =>
          \/ \E w \in pending : UpsertStep(w)
          \/ \E r \in Reqs : RemoveStep(r)]_vars

\* C34 witness: with documents of admin and alice stored, an invalidate of
\* alice removed her document and the document of admin is still stored
C34_Witness ==
  \E r \in Reqs :
    /\ Has(req[r].hist, "invalidate") /\ req[r].user = "alice"
    /\ req[r].removed = 1
    /\ \A d \in req[r].removedDocs : d.user = "alice"
    /\ \E i \in 1..Len(tokens) : tokens[i].user = "admin"
    /\ \A i \in 1..Len(tokens) : tokens[i].user # "alice"

\* request r passed the gate, audit stage included, and the permission check
\* of its route denied it
RouteDenied(r) ==
  /\ Has(req[r].hist, "audit") /\ ~Has(req[r].hist, "permissions")
  /\ matchRoute(req[r].method, req[r].url) # <<>>
  /\ req[r].error = "TokenPermissionError"

\* C35 as stated: a request that passed the gate and was denied by the
\* permission check of its route has two audit entries, one of type request
\* and one of type error
C35_Original ==
  \A r \in Reqs :
    (RouteDenied(r) /\ req[r].pc = "done") =>
      /\ Cardinality(RequestWritesOf(r)) = 1
      /\ Cardinality(ErrorWritesOf(r)) = 1
      /\ Cardinality(AuditWritesOf(r)) = 2

\* C35 amended: such a request has the error-type entry of the ErrorHandler,
\* with the id of its token, and, unless its path is /logs, the request-type
\* entry that the gate issued before the route's check ran: two entries, and
\* one for /logs
C35_RouteDenialEntries ==
  /\ [](\A r \in Reqs :
          (RouteDenied(r) /\ req[r].pc = "done") =>
            /\ Answered(r, "TokenPermissionError")
            /\ Cardinality(ErrorWritesOf(r)) = 1
            /\ \A w \in ErrorWritesOf(r) :
                 /\ w.data.error = "TokenPermissionError"
                 /\ w.data.user = req[r].token[1].id
            /\ Cardinality(RequestWritesOf(r)) =
                 IF req[r].url = "/logs" THEN 0 ELSE 1
            /\ Cardinality(AuditWritesOf(r)) =
                 IF req[r].url = "/logs" THEN 1 ELSE 2)
  /\ [][\A r \in Reqs :
          (req[r].pc = "routeRequire" /\ req'[r].pc # "routeRequire") =>
            /\ Has(req[r].hist, "audit")
            /\ ErrorWritesOf(r) = {}
            /\ req[r].url # "/logs" => Cardinality(RequestWritesOf(r)) = 1]_vars

\* C35 witness: GET /tokens with a token that holds General.Access and not
\* Tokens.List was denied, and its two entries are in the logs collection
C35_Witness ==
  \E r \in Reqs :
    /\ RouteDenied(r) /\ req[r].pc = "done"
    /\ req[r].url = "/tokens"
    /\ \E a \in logs : \E b \in logs :
         /\ a.rid = r /\ a.type = "request"
         /\ b.rid = r /\ b.type = "error"

\* C36: request.token is set only by the step in which confirmToken accepts
\* the result of the lookup, to the decoded claims; the error-type entries of
\* a request rejected before that step (body, header, signature, expiry,
\* liveness) carry the user 'Unknown ID', those of a request rejected after it
\* the id of its token
C36_RequesterOfErrorEntry ==
  /\ [][\A r \in Reqs :
          req'[r].token # req[r].token =>
            /\ req[r].pc = "confirmToken" /\ req'[r].pc = "secure"
            /\ confirmToken(req[r].result, req[r].tokenString)
            /\ req[r].token = <<>>
            /\ req'[r].token = req[r].decoded]_vars
  /\ [](\A r \in Reqs :
          /\ req[r].token # <<>> <=> Has(req[r].hist, "live")
          /\ \A w \in ErrorWritesOf(r) :
               /\ req[r].error # ""
               /\ w.data.user = IF Has(req[r].hist, "live")
                                  THEN req[r].token[1].id
                                  ELSE "Unknown ID"
               /\ req[r].error \in {"SyntaxError", "TokenExpiredError",
                                    "JsonWebTokenError"}
                    => w.data.user = "Unknown ID"
               /\ (req[r].error = "InvalidPayloadError"
                     /\ ~tokenFormat(req[r].header))
                    => w.data.user = "Unknown ID"
               /\ req[r].error = "TokenPermissionError"
                    => w.data.user = req[r].tokenString.payload.id)

\* C36 witness: the logs hold the error entry of a request rejected at the
\* signature check, with 'Unknown ID', and that of a request rejected by a
\* permission check, with the id of its token
C36_Witness ==
  \E r \in Reqs : \E q \in Reqs :
    /\ req[r].error = "JsonWebTokenError" /\ Has(req[r].hist, "header")
    /\ ~Has(req[r].hist, "live")
    /\ \E a \in logs : a.rid = r /\ a.type = "error" /\ a.user = "Unknown ID"
    /\ req[q].error = "TokenPermissionError"
    /\ \E b \in logs : b.rid = q /\ b.type = "error" /\ b.user \in Users

====
